---- MODULE Spec2Model ----
(***************************************************************************)
(* A model of FLI.py, the Food Loss Index tracker: load_data, the area     *)
(* resolver get_iso_code, and the script body (selection, filtering,       *)
(* summary statistics, map data, linear-trend forecast) as a sequence of   *)
(* stages.  A data frame is a sequence of rows; a row is a record with the *)
(* columns AREA, TIME_PERIOD, FLI, LossPercent.  Index values are integers *)
(* (the source's floats, scaled); a fitted prediction is an exact rational *)
(* <<numerator, denominator>>.                                             *)
(***************************************************************************)
EXTENDS Integers, Sequences, FiniteSets, TLC

\* ------------------------------------------------------------ missing values

\* Python's None in an object column (AREA, ISO_Code) and as a function result.
None == "None"

\* A missing value in a numeric column: pandas stores the None of lines 16-17 as NaN.
NaN == -1

\* ------------------------------------------------------------ strings

\* The characters the model's names use, in code point order.
AsciiOrder == " ',-0123456789ABCDEFGHIJKLMNOPQRSTUVWXYZabcdefghijklmnopqrstuvwxyz"

CharAt(s, i) == SubSeq(s, i, i)

Ord(c) == CHOOSE i \in 1..Len(AsciiOrder) : CharAt(AsciiOrder, i) = c

\* str.lower() on one character.
LowerChar(c) ==
    IF Ord(c) >= Ord("A") /\ Ord(c) <= Ord("Z")
    THEN CharAt(AsciiOrder, Ord(c) + 26)
    ELSE c

RECURSIVE Lower(_)
\* str.lower(), as pycountry's lookup applies it to the value and to its index keys.
Lower(s) ==
    IF Len(s) = 0 THEN s
    ELSE LowerChar(CharAt(s, 1)) \o Lower(SubSeq(s, 2, Len(s)))

RECURSIVE StrLess(_, _)
\* Python's s < t on strings (lexicographic by code point).
StrLess(s, t) ==
    IF Len(t) = 0 THEN FALSE
    ELSE IF Len(s) = 0 THEN TRUE
    ELSE IF CharAt(s, 1) # CharAt(t, 1) THEN Ord(CharAt(s, 1)) < Ord(CharAt(t, 1))
    ELSE StrLess(SubSeq(s, 2, Len(s)), SubSeq(t, 2, Len(t)))

Min(S) == CHOOSE x \in S : \A y \in S : x <= y

Max(S) == CHOOSE x \in S : \A y \in S : x >= y

\* ------------------------------------------------------------ the override table

\* A table in which the whole-world and whole-continent names carry their UN M49
\* codes instead of None.
no_code_entries_m49 == "World" :> "001" @@ "Africa" :> "002"

\* The entries of region_mapping that map a name to None (lines 25-26).
no_code_entries == [n \in {"World", "Africa"} |-> None]

\* The entries of region_mapping that map a name to a code (lines 27-62).
coded_entries ==
    ( "South America" :> "SA" @@
      "Western Africa" :> "011" @@
      "Central America" :> "013" @@
      "Northern Africa" :> "015" @@
      "Eastern Africa" :> "014" @@
      "Middle Africa" :> "017" @@
      "Southern Africa" :> "018" @@
      "Americas" :> "019" @@
      "Northern America" :> "021" @@
      "Caribbean" :> "029" @@
      "Eastern Asia" :> "030" @@
      "Southern Asia" :> "034" @@
      "South-eastern Asia" :> "035" @@
      "Southern Europe" :> "039" @@
      "Australia and New Zealand" :> "053" @@
      "Melanesia" :> "054" @@
      "Micronesia" :> "057" @@
      "Polynesia" :> "061" @@
      "Central Asia and Southern Asia" :> "062" @@
      "Asia" :> "142" @@
      "Central Asia" :> "143" @@
      "Western Asia" :> "145" @@
      "Europe" :> "150" @@
      "Eastern Europe" :> "151" @@
      "Northern Europe" :> "154" @@
      "Western Europe" :> "155" @@
      "Least Developed Countries (LDCs)" :> "199" @@
      "Sub-Saharan Africa" :> "202" @@
      "Latin America and the Caribbean" :> "419" @@
      "Land Locked Developing Countries (LLDCs)" :> "432" @@
      "Northern America and Europe" :> "513" @@
      "Oceania (excluding Australia and New Zealand)" :> "543" @@
      "Small Island Developing States (SIDS)" :> "722" @@
      "Western Asia and Northern Africa" :> "747" @@
      "Eastern Asia and South-eastern Asia" :> "753" @@
      "Europe, Northern America, Australia and New Zealand" :> "777" )

\* region_mapping, the manual mapping for regions not in pycountry.
region_mapping == no_code_entries @@ coded_entries

\* ------------------------------------------------------------ the country registry

\* pycountry.countries, restricted to a few of its records (ISO 3166-1).
\* A field a record lacks is None.
countries ==
    << [alpha_2 |-> "BO", alpha_3 |-> "BOL", numeric |-> "068",
        name |-> "Bolivia, Plurinational State of",
        official_name |-> "Plurinational State of Bolivia", common_name |-> "Bolivia"],
       [alpha_2 |-> "CL", alpha_3 |-> "CHL", numeric |-> "152",
        name |-> "Chile",
        official_name |-> "Republic of Chile", common_name |-> None],
       [alpha_2 |-> "CN", alpha_3 |-> "CHN", numeric |-> "156",
        name |-> "China",
        official_name |-> "People's Republic of China", common_name |-> None],
       [alpha_2 |-> "NE", alpha_3 |-> "NER", numeric |-> "562",
        name |-> "Niger",
        official_name |-> "Republic of the Niger", common_name |-> None],
       [alpha_2 |-> "NG", alpha_3 |-> "NGA", numeric |-> "566",
        name |-> "Nigeria",
        official_name |-> "Federal Republic of Nigeria", common_name |-> None] >>

\* The fields pycountry indexes for lookup, each compared lower-cased.
IndexKeys(c) ==
    { Lower(v) : v \in { c.alpha_2, c.alpha_3, c.numeric, c.name,
                         c.official_name, c.common_name } \ {None} }

\* pycountry's lower-cased index of the registry, built once when it is loaded.
indices == [i \in 1..Len(countries) |-> IndexKeys(countries[i])]

\* pycountry.countries.lookup(value): <<record>> of the first record one of whose
\* indexed fields equals the value case-insensitively, <<>> for LookupError.
lookup(value) ==
    LET key == Lower(value)
        hits == { i \in 1..Len(countries) : key \in indices[i] }
    IN  IF hits = {} THEN << >> ELSE << countries[Min(hits)] >>

\* [c.name for c in pycountry.countries]
country_names == [i \in 1..Len(countries) |-> countries[i].name]

\* ------------------------------------------------------------ difflib

\* The length of the common run of a[i:ahi] and b[j:bhi] (0-based, half-open).
RECURSIVE RunLen(_, _, _, _, _, _)
RunLen(a, i, ahi, b, j, bhi) ==
    IF i < ahi /\ j < bhi /\ CharAt(a, i + 1) = CharAt(b, j + 1)
    THEN 1 + RunLen(a, i + 1, ahi, b, j + 1, bhi)
    ELSE 0

\* SequenceMatcher.find_longest_match(alo, ahi, blo, bhi) without junk: the
\* longest block a[i:i+k] = b[j:j+k]; of the longest, the one starting earliest
\* in a, and of those the one starting earliest in b.  <<i, j, k>>.
find_longest_match(a, alo, ahi, b, blo, bhi) ==
    LET starts == (alo..(ahi - 1)) \X (blo..(bhi - 1))
        size(p) == RunLen(a, p[1], ahi, b, p[2], bhi)
        best == IF starts = {} THEN 0 ELSE Max({ size(p) : p \in starts })
    IN  IF best = 0 THEN << alo, blo, 0 >>
        ELSE LET longest == { p \in starts : size(p) = best }
                 besti == Min({ p[1] : p \in longest })
                 bestj == Min({ p[2] : p \in { q \in longest : q[1] = besti } })
             IN  << besti, bestj, best >>

\* The sum of the sizes of SequenceMatcher.get_matching_blocks(): the longest
\* match, then the same to its left and to its right.
RECURSIVE matching_size(_, _, _, _, _, _)
matching_size(a, alo, ahi, b, blo, bhi) ==
    LET m == find_longest_match(a, alo, ahi, b, blo, bhi)
    IN  IF m[3] = 0 THEN 0
        ELSE m[3] + matching_size(a, alo, m[1], b, blo, m[2])
                  + matching_size(a, m[1] + m[3], ahi, b, m[2] + m[3], bhi)

\* How often character c occurs in s.
Count(s, c) == Cardinality({ i \in 1..Len(s) : CharAt(s, i) = c })

\* The number of matches SequenceMatcher.quick_ratio() counts: the size of the
\* multiset intersection of the characters of a and b.
quick_matches(a, b) ==
    LET chars == { CharAt(a, i) : i \in 1..Len(a) }
        RECURSIVE Sum(_)
        Sum(S) == IF S = {} THEN 0
                  ELSE LET c == CHOOSE x \in S : TRUE
                           ca == Count(a, c)
                           cb == Count(b, c)
                       IN  (IF ca < cb THEN ca ELSE cb) + Sum(S \ {c})
    IN  Sum(chars)

\* ratio(): 2.0 * matches / (len(a) + len(b)), as <<numerator, denominator>>;
\* 1.0 when both are empty.
calculate_ratio(matches, length) ==
    IF length > 0 THEN << 2 * matches, length >> ELSE << 1, 1 >>

ratio(a, b) == calculate_ratio(matching_size(a, 0, Len(a), b, 0, Len(b)), Len(a) + Len(b))

quick_ratio(a, b) == calculate_ratio(quick_matches(a, b), Len(a) + Len(b))

real_quick_ratio(a, b) ==
    calculate_ratio(IF Len(a) < Len(b) THEN Len(a) ELSE Len(b), Len(a) + Len(b))

\* The cutoff=0.8 of the get_close_matches call, as CutoffNum / CutoffDen.
CutoffNum == 8

CutoffDen == 10

\* r >= cutoff on rationals.
AtLeastCutoff(r) == r[1] * CutoffDen >= CutoffNum * r[2]

\* Python's (score1, x1) < (score2, x2) on the tuples heapq.nlargest compares.
ScoredLess(x1, x2, word) ==
    LET r1 == ratio(x1, word)
        r2 == ratio(x2, word)
    IN  \/ r1[1] * r2[2] < r2[1] * r1[2]
        \/ r1[1] * r2[2] = r2[1] * r1[2] /\ StrLess(x1, x2)

\* Whether get_close_matches keeps possibility x for word: seq2 is the word,
\* seq1 the possibility, and the three ratios are tested in this order.
Passes(word, x) ==
    /\ AtLeastCutoff(real_quick_ratio(x, word))
    /\ AtLeastCutoff(quick_ratio(x, word))
    /\ AtLeastCutoff(ratio(x, word))

\* get_close_matches(word, possibilities, n=1, cutoff=0.8): the best-scoring
\* possibility that reaches the cutoff, as a list of at most one name.
get_close_matches(word, possibilities) ==
    LET result == { possibilities[i] : i \in { k \in 1..Len(possibilities) :
                                                Passes(word, possibilities[k]) } }
    IN  IF result = {} THEN << >>
        ELSE << CHOOSE x \in result :
                    \A y \in result : y = x \/ ScoredLess(y, x, word) >>

\* ------------------------------------------------------------ get_iso_code

\* get_iso_code with the registry consulted before the override table.
get_iso_code_run_registry_first(name) ==
    LET found == lookup(name)
    IN  IF found # << >>
        THEN [code |-> found[1].alpha_3, stages |-> << "registry" >>]
        ELSE IF name \in DOMAIN region_mapping
        THEN [code |-> region_mapping[name], stages |-> << "registry", "override" >>]
        ELSE LET match == get_close_matches(name, country_names)
             IN  [code |-> IF match # << >> THEN lookup(match[1])[1].alpha_3 ELSE None,
                  stages |-> << "registry", "override", "fuzzy" >>]

\* get_iso_code(name) with the stages it evaluated: the code it returns (None for
\* no code) and, in evaluation order, the lookups it attempted.
get_iso_code_run(name) ==
    IF name \in DOMAIN region_mapping
    THEN [code |-> region_mapping[name], stages |-> << "override" >>]
    ELSE LET found == lookup(name)
         IN  IF found # << >>
             THEN [code |-> found[1].alpha_3, stages |-> << "override", "registry" >>]
             ELSE LET match == get_close_matches(name, country_names)
                  IN  [code |-> IF match # << >> THEN lookup(match[1])[1].alpha_3 ELSE None,
                       stages |-> << "override", "registry", "fuzzy" >>]

get_iso_code(name) == get_iso_code_run(name).code

\* ------------------------------------------------------------ data frames

Row(area, period, fli, loss) ==
    [AREA |-> area, TIME_PERIOD |-> period, FLI |-> fli, LossPercent |-> loss]

\* Only the index column is tested, as dropna(subset=['FLI']) would.
HasMissing_fli_only(r) == r.FLI = NaN

\* pandas' isna on the four columns of a row.
HasMissing(r) ==
    r.AREA = None \/ r.TIME_PERIOD = NaN \/ r.FLI = NaN \/ r.LossPercent = NaN

\* DataFrame.dropna(): the rows without a missing value, in their order.
dropna(frame) == SelectSeq(frame, LAMBDA r : ~HasMissing(r))

\* load_data(): the frame it builds, then dropna().
load_data(frame) == dropna(frame)

\* sorted(...) of a set of strings.
RECURSIVE SortedStrings(_)
SortedStrings(S) ==
    IF S = {} THEN << >>
    ELSE LET least == CHOOSE x \in S : \A y \in S : y = x \/ StrLess(x, y)
         IN  << least >> \o SortedStrings(S \ {least})

\* sorted(...) of a set of integers.
RECURSIVE SortedInts(_)
SortedInts(S) ==
    IF S = {} THEN << >>
    ELSE << Min(S) >> \o SortedInts(S \ {Min(S)})

Column(frame, col) == { frame[i][col] : i \in 1..Len(frame) }

\* frame with row i removed.
Drop(frame, i) == SubSeq(frame, 1, i - 1) \o SubSeq(frame, i + 1, Len(frame))

\* DataFrame.sort_values(by='FLI', ascending=False): descending FLI, rows of
\* equal FLI in their original order.
RECURSIVE sort_values(_)
sort_values(frame) ==
    IF frame = << >> THEN << >>
    ELSE LET top == Max(Column(frame, "FLI"))
             i == Min({ k \in 1..Len(frame) : frame[k].FLI = top })
         IN  << frame[i] >> \o sort_values(Drop(frame, i))

\* DataFrame.head(n)
head(frame, n) == SubSeq(frame, 1, IF Len(frame) < n THEN Len(frame) ELSE n)

\* ------------------------------------------------------------ the linear trend

RECURSIVE SumSeq(_)
SumSeq(q) == IF q = << >> THEN 0 ELSE Head(q) + SumSeq(Tail(q))

\* LinearRegression().fit(X, y) on the TIME_PERIOD and FLI columns of a frame:
\* both columns are centred on their means and the slope is the least-squares
\* solution, 0 when every period is the same (the minimum-norm solution).
\* With n rows, dx = n*(x - mean x) and dy = n*(y - mean y):
\* coef = sum(dx*dy) / sum(dx*dx), kept as numerator cn and denominator cd.
fit(frame) ==
    LET n == Len(frame)
        Sx == SumSeq([i \in 1..n |-> frame[i].TIME_PERIOD])
        Sy == SumSeq([i \in 1..n |-> frame[i].FLI])
        dx(i) == n * frame[i].TIME_PERIOD - Sx
        dy(i) == n * frame[i].FLI - Sy
        sxx == SumSeq([i \in 1..n |-> dx(i) * dx(i)])
        sxy == SumSeq([i \in 1..n |-> dx(i) * dy(i)])
    IN  [n |-> n, Sx |-> Sx, Sy |-> Sy,
         cn |-> IF sxx = 0 THEN 0 ELSE sxy,
         cd |-> IF sxx = 0 THEN 1 ELSE sxx]

\* A prediction clamped at zero from below.
predict_clamped(model, period) ==
    LET num == model.Sy * model.cd + model.cn * (model.n * period - model.Sx)
    IN  << IF num < 0 THEN 0 ELSE num, model.n * model.cd >>

\* model.predict at one period: intercept + coef * period, with
\* intercept = mean y - coef * mean x; the exact rational <<numerator, denominator>>.
predict(model, period) ==
    << model.Sy * model.cd + model.cn * (model.n * period - model.Sx),
       model.n * model.cd >>

\* np.arange(start, stop): start, start+1, ..., stop-1.
arange(start, stop) == [i \in 1..(IF stop > start THEN stop - start ELSE 0) |-> start + i - 1]

\* The stop of the forecast range is max(years) + ArangeStop.
ArangeStop == 6

Elems(q) == { q[i] : i \in 1..Len(q) }

\* future_years: np.arange(min(years), max(years)+6), years being the sorted
\* periods of the whole loaded frame.
future_years_of(yrs) == arange(Min(Elems(yrs)), Max(Elems(yrs)) + ArangeStop)

\* ------------------------------------------------------------ inputs

\* The most rows an input frame of each family holds.
MaxGeoRows == 2

MaxTrendRows == 3

MaxLoadRows == 2

\* Area names for the resolver: override keys (without a code, with a numeric
\* code, with the code of South America), exact registry matches (a name, a
\* common name in another case), near misses and names unlike any registry name.
GeoAreas ==
    { "World", "Africa", "Western Africa", "South America", "Chile", "bolivia",
      "Chilee", "Chine", "Nigera", "Boliva", "Xyzzyplatz" }

GeoRows == { Row(a, 2021, 100, 13) : a \in GeoAreas }

\* Two areas over several years: a linear series for World (with a second,
\* off-line value in its last year) and a shorter falling one for Chile.
TrendRows ==
    { Row("World", 2016, 100, 13), Row("World", 2017, 102, 13),
      Row("World", 2018, 104, 13), Row("World", 2018, 100, 13),
      Row("Chile", 2017, 10, 13), Row("Chile", 2018, 5, 13) }

\* Rows with a missing value in each column, and complete ones.
LoadRows ==
    { Row("World", 2021, 98, 13), Row("Africa", 2021, NaN, NaN),
      Row(None, 2021, 98, 13), Row("Chile", NaN, 98, 13),
      Row("Chile", 2020, NaN, 13), Row("Chile", 2020, 85, NaN) }

\* The sequences of at most n rows of S.
Frames(S, n) == UNION { [1..k -> S] : k \in 0..n }

\* The frame the source builds inside load_data (lines 13-18), before dropna,
\* its values in hundredths.
SourceFrame ==
    << Row("World", 2021, 9827, 1323), Row("Africa", 2021, NaN, NaN),
       Row("South America", 2021, 10429, 1410), Row("Western Africa", 2021, 9969, 2356),
       Row("Central America", 2021, 8570, 1591) >>

\* Frames other than the one load_data builds, and that one.  load_data takes no
\* argument, so the program runs on SourceFrame alone; the stages after it are
\* functions of the frame, and these frames are the arguments they are checked on.
InputFrames ==
    Frames(GeoRows, MaxGeoRows) \cup Frames(TrendRows, MaxTrendRows)
        \cup Frames(LoadRows, MaxLoadRows) \cup { SourceFrame }

\* The complete rows of the frame are one record per (area, period), as the
\* rows of SourceFrame are.
OneRecordPerKey(frame) ==
    \A i, j \in 1..Len(frame) :
        ( /\ i # j
          /\ ~HasMissing(frame[i])
          /\ ~HasMissing(frame[j])
          /\ frame[i].AREA = frame[j].AREA )
            => frame[i].TIME_PERIOD # frame[j].TIME_PERIOD

RecordFrames == { f \in InputFrames : OneRecordPerKey(f) }

\* ------------------------------------------------------------ the script

VARIABLES
    raw,              \* the frame load_data builds, before dropna
    pc,               \* the stage the script is at
    data, regions, years,
    selected_region, selected_year,
    filtered_data, year_data,
    top10,
    summary,          \* "pending", "value" or "N/A"
    fli_value, loss_pct, num_regions,
    map_data,
    iso_log,          \* per row of year_data, the get_iso_code call made for it
    map_view,         \* "pending", "choropleth" or "warning"
    forecast_view,    \* "pending", "forecast" or "info"
    future_years, predictions

vars ==
    << raw, pc, data, regions, years, selected_region, selected_year,
       filtered_data, year_data, top10, summary, fli_value, loss_pct, num_regions,
       map_data, iso_log, map_view, forecast_view, future_years, predictions >>

\* The script's variables before its first stage, load_data's frame being f.
Start(f) ==
    /\ raw = f
    /\ pc = "load"
    /\ data = << >>
    /\ regions = << >>
    /\ years = << >>
    /\ selected_region = None
    /\ selected_year = NaN
    /\ filtered_data = << >>
    /\ year_data = << >>
    /\ top10 = << >>
    /\ summary = "pending"
    /\ fli_value = NaN
    /\ loss_pct = NaN
    /\ num_regions = 0
    /\ map_data = << >>
    /\ iso_log = << >>
    /\ map_view = "pending"
    /\ forecast_view = "pending"
    /\ future_years = << >>
    /\ predictions = << >>

\* The program: load_data builds SourceFrame and nothing else.
Init == Start(SourceFrame)

\* The stages applied to any of the input frames.
InitFrames == \E f \in InputFrames : Start(f)

\* The stages applied to the input frames of one record per (area, period).
InitRecords == \E f \in RecordFrames : Start(f)

\* Lines 80-82: data = load_data(), regions and years sorted and unique.
Load ==
    /\ pc = "load"
    /\ data' = load_data(raw)
    /\ regions' = SortedStrings(Column(data', "AREA"))
    /\ years' = SortedInts(Column(data', "TIME_PERIOD"))
    /\ pc' = "select"
    /\ UNCHANGED << raw, selected_region, selected_year, filtered_data, year_data,
                    top10, summary, fli_value, loss_pct, num_regions, map_data,
                    iso_log, map_view, forecast_view, future_years, predictions >>

\* Lines 84-85: the two select boxes; the user may pick any option, and a
\* select box without options yields None.
Select ==
    /\ pc = "select"
    /\ selected_region' \in (IF regions = << >> THEN {None} ELSE Elems(regions))
    /\ selected_year' \in (IF years = << >> THEN {NaN} ELSE Elems(years))
    /\ pc' = "filter"
    /\ UNCHANGED << raw, data, regions, years, filtered_data, year_data,
                    top10, summary, fli_value, loss_pct, num_regions, map_data,
                    iso_log, map_view, forecast_view, future_years, predictions >>

\* Lines 87-88: the selected region's rows; the selected year's rows by FLI, descending.
Filter ==
    /\ pc = "filter"
    /\ filtered_data' = SelectSeq(data, LAMBDA r : r.AREA = selected_region)
    /\ year_data' = sort_values(SelectSeq(data, LAMBDA r : r.TIME_PERIOD = selected_year))
    /\ pc' = "charts"
    /\ UNCHANGED << raw, data, regions, years, selected_region, selected_year,
                    top10, summary, fli_value, loss_pct, num_regions, map_data,
                    iso_log, map_view, forecast_view, future_years, predictions >>

\* Lines 91-100: the trend line of filtered_data and the bar chart of the top 10.
Charts ==
    /\ pc = "charts"
    /\ top10' = head(year_data, 10)
    /\ pc' = "summary"
    /\ UNCHANGED << raw, data, regions, years, selected_region, selected_year,
                    filtered_data, year_data, summary, fli_value, loss_pct,
                    num_regions, map_data, iso_log, map_view, forecast_view,
                    future_years, predictions >>

\* filtered_data[filtered_data['TIME_PERIOD'] == selected_year]
SelectedYearRows == SelectSeq(filtered_data, LAMBDA r : r.TIME_PERIOD = selected_year)

\* Lines 103-109 when .values[0] exists or filtered_data is empty.
Summary ==
    /\ pc = "summary"
    /\ filtered_data = << >> \/ SelectedYearRows # << >>
    /\ IF filtered_data = << >>
       THEN summary' = "N/A" /\ fli_value' = NaN /\ loss_pct' = NaN
       ELSE /\ summary' = "value"
            /\ fli_value' = SelectedYearRows[1].FLI
            /\ loss_pct' = SelectedYearRows[1].LossPercent
    /\ num_regions' = Cardinality(Column(year_data, "AREA"))
    /\ pc' = "map"
    /\ UNCHANGED << raw, data, regions, years, selected_region, selected_year,
                    filtered_data, year_data, top10, map_data, iso_log, map_view,
                    forecast_view, future_years, predictions >>

\* Line 103 when filtered_data has rows but none in the selected year:
\* .values[0] raises IndexError, which nothing catches, and the script stops.
SummaryFault ==
    /\ pc = "summary"
    /\ filtered_data # << >>
    /\ SelectedYearRows = << >>
    /\ pc' = "fault"
    /\ UNCHANGED << raw, data, regions, years, selected_region, selected_year,
                    filtered_data, year_data, top10, summary, fli_value, loss_pct,
                    num_regions, map_data, iso_log, map_view, forecast_view,
                    future_years, predictions >>

\* A row of map_data: the row of year_data with its ISO_Code column.
WithCode(r, code) ==
    [AREA |-> r.AREA, TIME_PERIOD |-> r.TIME_PERIOD, FLI |-> r.FLI,
     LossPercent |-> r.LossPercent, ISO_Code |-> code]

\* The ISO_Code column is added and no row is dropped.
map_data_of_keep_all(frame) ==
    [i \in 1..Len(frame) |-> WithCode(frame[i], get_iso_code(frame[i].AREA))]

\* Lines 113-115: a copy of year_data with the ISO_Code column, without the rows
\* whose code is missing.
map_data_of(frame) ==
    SelectSeq([i \in 1..Len(frame) |-> WithCode(frame[i], get_iso_code(frame[i].AREA))],
              LAMBDA r : r.ISO_Code # None)

\* Lines 113-128: the map data, then the choropleth or the warning.
MapView ==
    /\ pc = "map"
    /\ iso_log' = [i \in 1..Len(year_data) |-> get_iso_code_run(year_data[i].AREA)]
    /\ map_data' = map_data_of(year_data)
    /\ map_view' = IF map_data' # << >> THEN "choropleth" ELSE "warning"
    /\ pc' = "forecast"
    /\ UNCHANGED << raw, data, regions, years, selected_region, selected_year,
                    filtered_data, year_data, top10, summary, fli_value, loss_pct,
                    num_regions, forecast_view, future_years, predictions >>

\* The forecast branch taken for any series that is not empty.
enough_data_any(frame) == Len(frame) > 0

\* Line 132: whether the forecast branch is taken.
enough_data(frame) == Len(frame) > 1

\* Lines 132-142: fit on filtered_data, predict over future_years.
Forecast ==
    /\ pc = "forecast"
    /\ enough_data(filtered_data)
    /\ future_years' = future_years_of(years)
    /\ predictions' = [i \in 1..Len(future_years') |->
                          predict(fit(filtered_data), future_years'[i])]
    /\ forecast_view' = "forecast"
    /\ pc' = "done"
    /\ UNCHANGED << raw, data, regions, years, selected_region, selected_year,
                    filtered_data, year_data, top10, summary, fli_value, loss_pct,
                    num_regions, map_data, iso_log, map_view >>

\* Lines 143-144: not enough data to train a model.
ForecastInfo ==
    /\ pc = "forecast"
    /\ ~enough_data(filtered_data)
    /\ forecast_view' = "info"
    /\ pc' = "done"
    /\ UNCHANGED << raw, data, regions, years, selected_region, selected_year,
                    filtered_data, year_data, top10, summary, fli_value, loss_pct,
                    num_regions, map_data, iso_log, map_view, future_years,
                    predictions >>

Next ==
    \/ Load
    \/ Select
    \/ Filter
    \/ Charts
    \/ Summary
    \/ SummaryFault
    \/ MapView
    \/ Forecast
    \/ ForecastInfo

\* The program.
Spec == Init /\ [][Next]_vars

\* The program's stages on every input frame.  SourceFrame is one of them, so
\* every behaviour of Spec is a behaviour of SpecFrames and of SpecRecords, and
\* what is invariant under either is invariant in the program.
SpecFrames == InitFrames /\ [][Next]_vars

SpecRecords == InitRecords /\ [][Next]_vars

\* ------------------------------------------------------------ properties: the resolver

\* The get_iso_code calls the map stage has made: the name of each row of
\* year_data with the call's result.
Resolved == { << year_data[i].AREA, iso_log[i] >> : i \in 1..Len(iso_log) }

ResolvedNames == { c[1] : c \in Resolved }

\* q is a prefix of r.
IsPrefix(q, r) == Len(q) <= Len(r) /\ SubSeq(r, 1, Len(q)) = q

\* C1: get_iso_code evaluates override table, registry lookup, approximate match
\* in this order and stops at the first that succeeds: an override key gets the
\* table's value after the override stage alone, and a name the registry matches
\* exactly gets the registry's code without the approximate match.
C1_FirstSuccessWins ==
    \A c \in Resolved :
        LET name == c[1]
            run == c[2]
        IN  /\ IsPrefix(run.stages, << "override", "registry", "fuzzy" >>)
            /\ run.stages # << >>
            /\ name \in DOMAIN region_mapping =>
                   run.code = region_mapping[name] /\ run.stages = << "override" >>
            /\ (name \notin DOMAIN region_mapping /\ lookup(name) # << >>) =>
                   /\ run.code = lookup(name)[1].alpha_3
                   /\ run.stages = << "override", "registry" >>

\* The map stage has resolved "Western Africa" to "011" by the override table
\* alone and "Chile" by the registry without an approximate match.
C1_Witness ==
    /\ << "Western Africa", [code |-> "011", stages |-> << "override" >>] >> \in Resolved
    /\ << "Chile", [code |-> "CHL", stages |-> << "override", "registry" >>] >> \in Resolved

\* C2: for the names the override table maps to no code, "World" and "Africa",
\* get_iso_code returns None, decided by the table and nothing after it, and
\* their rows are not in the map data.
C2_NoCodeNames ==
    \A c \in Resolved :
        c[1] \in { "World", "Africa" } =>
            /\ c[2].code = None
            /\ \A i \in 1..Len(map_data) : map_data[i].AREA # c[1]

\* The map stage has resolved both "World" and "Africa", next to nothing else,
\* and shown the warning.
C2_Witness ==
    /\ ResolvedNames = { "World", "Africa" }
    /\ map_view = "warning"

\* The area names the input frames hold.
InputAreas ==
    { r.AREA : r \in GeoRows \cup TrendRows \cup LoadRows \cup Elems(SourceFrame) } \ {None}

\* The similarity of each registry name to each input area name: ratio() with
\* the registry name as the first sequence, as <<numerator, denominator>>.
Similarity ==
    [word \in InputAreas |-> [k \in 1..Len(country_names) |-> ratio(country_names[k], word)]]

\* No registry name is more similar to the word than the k-th.
IsBest(k, word) ==
    \A j \in 1..Len(country_names) :
        Similarity[word][j][1] * Similarity[word][k][2]
            <= Similarity[word][k][1] * Similarity[word][j][2]

\* The similarity of the k-th registry name to the word is at least 8/10.
Similar(k, word) == 10 * Similarity[word][k][1] >= 8 * Similarity[word][k][2]

\* C8: a name that is neither an override key nor an exact registry match gets
\* the code of a registry name most similar to it when that similarity is at
\* least 0.8, and no code otherwise; "Boliva" gets the code of Bolivia, the
\* record lookup("Bolivia") finds, and "Xyzzyplatz" gets none.
C8_ApproximateMatch ==
    /\ \A c \in Resolved :
           LET name == c[1]
               code == c[2].code
               near == { i \in 1..Len(countries) : Similar(i, name) }
           IN  (name \notin DOMAIN region_mapping /\ lookup(name) = << >>) =>
                   /\ code # None <=> near # {}
                   /\ code # None =>
                          \E i \in near : IsBest(i, name) /\ code = countries[i].alpha_3
    /\ raw = SourceFrame =>
           /\ get_iso_code("Boliva") = lookup("Bolivia")[1].alpha_3
           /\ get_iso_code("Xyzzyplatz") = None

\* The character is a decimal digit.
IsDigit(c) == Ord(c) >= Ord("0") /\ Ord(c) <= Ord("9")

\* The string is one or more decimal digits.
AllDigits(s) == Len(s) > 0 /\ \A i \in 1..Len(s) : IsDigit(CharAt(s, i))

\* C10: every code the override stage returns is None or three decimal digits,
\* and every code get_iso_code returns at all is None or three characters long;
\* stated of the codes resolved in the program's run on its own frame.
C10_FixedLengthCodes ==
    raw = SourceFrame =>
        \A c \in Resolved :
            LET code == c[2].code
            IN  code # None =>
                    /\ Len(code) = 3
                    /\ c[2].stages = << "override" >> => AllDigits(code)

\* ------------------------------------------------------------ properties: loading

\* Every column of the row holds a value.
Complete(r) ==
    r.AREA # None /\ r.TIME_PERIOD # NaN /\ r.FLI # NaN /\ r.LossPercent # NaN

\* How often row r occurs in the frame.
Occurrences(frame, r) == Cardinality({ i \in 1..Len(frame) : frame[i] = r })

\* A row of map_data without its ISO_Code column.
Strip(r) == Row(r.AREA, r.TIME_PERIOD, r.FLI, r.LossPercent)

\* C6: load_data returns exactly the input rows without a missing value, each
\* as often as the input holds it, and no row with a missing value is in the
\* regions, the ranking, the map data or the forecast input.
C6_LoadDropsMissing ==
    pc # "load" =>
        /\ \A r \in Elems(raw) \cup Elems(data) :
               Occurrences(data, r) = IF Complete(r) THEN Occurrences(raw, r) ELSE 0
        /\ Elems(regions) = { r.AREA : r \in { q \in Elems(raw) : Complete(q) } }
        /\ \A r \in Elems(year_data) \cup Elems(filtered_data) \cup Elems(top10) :
               Complete(r) /\ r \in Elems(raw)
        /\ \A i \in 1..Len(map_data) :
               Complete(Strip(map_data[i])) /\ Strip(map_data[i]) \in Elems(raw)

\* A run has finished on an input that holds a complete row and a row whose
\* loss percentage alone is missing; only the complete row was loaded.
C6_Witness ==
    /\ pc = "done"
    /\ raw = << Row("Chile", 2020, 85, NaN), Row("World", 2021, 98, 13) >>
    /\ data = << Row("World", 2021, 98, 13) >>

\* ------------------------------------------------------------ properties: the map data

MapBuilt == pc \in { "forecast", "done" }

\* C7: an area without a code is left out of map_data and of nothing else: every
\* row of map_data has a code, map_data is the selected year's rows whose area
\* resolves to a code, an all-unresolved year gives the warning, and the map
\* stage changes none of data, regions, year_data, filtered_data and the ranking.
C7_UnresolvedOnlyOffMap ==
    /\ [](MapBuilt =>
            /\ \A i \in 1..Len(map_data) : map_data[i].ISO_Code # None
            /\ [i \in 1..Len(map_data) |-> Strip(map_data[i])]
                   = SelectSeq(year_data, LAMBDA r : get_iso_code(r.AREA) # None)
            /\ \A i \in 1..Len(map_data) :
                   map_data[i].ISO_Code = get_iso_code(map_data[i].AREA)
            /\ map_view = (IF \A r \in Elems(year_data) : get_iso_code(r.AREA) = None
                           THEN "warning" ELSE "choropleth")
            /\ Elems(year_data) = { r \in Elems(data) : r.TIME_PERIOD = selected_year }
            /\ Len(year_data) <= 10 => top10 = year_data
            /\ filtered_data = SelectSeq(data, LAMBDA r : r.AREA = selected_region))
    /\ [][pc = "map" =>
            /\ pc' = "forecast"
            /\ UNCHANGED << data, regions, years, year_data, filtered_data, top10,
                            selected_region, selected_year >>]_vars

\* A run has finished for the selected region "Xyzzyplatz", which has no code:
\* it is in the ranking and in the forecast input, and off the map, which holds
\* the year's other row.
C7_Witness ==
    /\ pc = "done"
    /\ selected_region = "Xyzzyplatz"
    /\ get_iso_code("Xyzzyplatz") = None
    /\ Len(year_data) = 2
    /\ Len(map_data) = 1
    /\ map_data[1].AREA = "Chile"
    /\ \E i \in 1..Len(top10) : top10[i].AREA = "Xyzzyplatz"
    /\ filtered_data # << >>

\* ------------------------------------------------------------ properties: the forecast

Periods(frame) == Column(frame, "TIME_PERIOD")

Collinear(p, q, r) ==
    (q.FLI - p.FLI) * (r.TIME_PERIOD - p.TIME_PERIOD)
        = (r.FLI - p.FLI) * (q.TIME_PERIOD - p.TIME_PERIOD)

\* The series is perfectly linear in the period, over at least 2 distinct periods.
PerfectlyLinear(frame) ==
    /\ Cardinality(Periods(frame)) >= 2
    /\ \A p, q, r \in Elems(frame) : Collinear(p, q, r)
    /\ \A p, q \in Elems(frame) : p.TIME_PERIOD = q.TIME_PERIOD => p.FLI = q.FLI

\* C5: on a perfectly linear series every prediction, historical or future, is
\* on the line of the series, unclamped: with p and q two of its rows at
\* different periods, the prediction for a year is p's value plus the slope
\* through p and q times the years since p.
C5_LinearSeriesOnItsLine ==
    (forecast_view = "forecast" /\ PerfectlyLinear(filtered_data)) =>
        \A i \in 1..Len(predictions) :
            \A p, q \in Elems(filtered_data) :
                p.TIME_PERIOD # q.TIME_PERIOD =>
                    predictions[i][1] * (q.TIME_PERIOD - p.TIME_PERIOD)
                        = predictions[i][2]
                            * ( p.FLI * (q.TIME_PERIOD - p.TIME_PERIOD)
                                + (q.FLI - p.FLI) * (future_years[i] - p.TIME_PERIOD) )

\* The prediction for the year, when it is the integer v.
PredictionIs(year, v) ==
    \E i \in 1..Len(predictions) :
        future_years[i] = year /\ predictions[i][1] = v * predictions[i][2]

\* A forecast from (2016,100), (2017,102), (2018,104) gives 106 for 2019 and 108
\* for 2020, above every observed value.
C5_Witness ==
    /\ forecast_view = "forecast"
    /\ filtered_data = << Row("World", 2016, 100, 13), Row("World", 2017, 102, 13),
                          Row("World", 2018, 104, 13) >>
    /\ PredictionIs(2019, 106)
    /\ PredictionIs(2020, 108)

====
